---------------------------- MODULE Spec2Model ----------------------------
(***************************************************************************)
(* State-machine model of incident_tracker.py: the SQLite incidents table  *)
(* with add_incident / update_status / bulk_import_csv, and the            *)
(* generate_reports pipeline (load, export, aggregate, metrics file,       *)
(* charts, PDF).                                                           *)
(***************************************************************************)
EXTENDS Integers, Sequences, FiniteSets, TLC

VARIABLES
    incidents,  \* the rows of table incidents, in primary-key order
    autoinc,    \* sqlite_sequence: the largest id AUTOINCREMENT has handed out
    last,       \* the most recent call: [op, header, result]; header tells whether
                \* the CSV file given to bulk_import_csv had every expected column
    pc,         \* position of the generate_reports call in progress
    df,         \* the DataFrame the run loaded
    metrics,    \* the metrics dict of the run
    series,     \* the severity series generate_charts plotted
    charts,     \* generate_charts' return value: label -> file name or None
    pdf,        \* the summary table and chart sections generate_pdf_report built
    written,    \* output files the run has written, in the order written
    failed_at,  \* the stage whose I/O raised, "" when none did
    ret         \* generate_reports' return value

vars == <<incidents, autoinc, last, pc, df, metrics, series, charts, pdf, written, failed_at, ret>>

store_vars == <<incidents, autoinc, last>>

run_vars == <<pc, df, metrics, series, charts, pdf, written, failed_at, ret>>

----------------------------------------------------------------------------
(* Bounds of the model. *)

\* The table holds at most MaxRows rows, and a CSV file at most as many.
MaxRows == 2

----------------------------------------------------------------------------
(* Text values.  A Python str / SQLite TEXT that is written as a timestamp  *)
(* is kept by its six numeric fields, whether its fields are zero-padded    *)
(* to two digits, and the separator between date and time; any other text   *)
(* is kept verbatim.  None / NULL / NaN is a value of its own.              *)

None == [kind |-> "None", parts |-> <<>>, pad |-> FALSE, sep |-> "", text |-> ""]

Raw(s) == [kind |-> "raw", parts |-> <<>>, pad |-> FALSE, sep |-> "", text |-> s]

Stamp(p, pad, sep) == [kind |-> "stamp", parts |-> p, pad |-> pad, sep |-> sep, text |-> ""]

\* Python truthiness of an Optional[str]: None and "" are falsy.
Truthy(t) == t # None /\ t # Raw("")

IsLeap(y) == (y % 4 = 0 /\ y % 100 # 0) \/ y % 400 = 0

DaysInMonth(y, m) ==
    IF m = 2 THEN (IF IsLeap(y) THEN 29 ELSE 28)
    ELSE IF m \in {4, 6, 9, 11} THEN 30 ELSE 31

\* The field ranges datetime(...) accepts.
ValidFields(p) ==
    /\ Len(p) = 6
    /\ p[1] \in 1..9999
    /\ p[2] \in 1..12
    /\ p[3] \in 1..DaysInMonth(p[1], p[2])
    /\ p[4] \in 0..23
    /\ p[5] \in 0..59
    /\ p[6] \in 0..59

\* "%Y-%m-%d %H:%M:%S": the fields are Y m d H M S with "-" and ":" between
\* them; what is kept here is the one blank between the date and the time.
ISO_FMT == [fields |-> <<"Y", "m", "d", "H", "M", "S">>, sep |-> " "]

\* datetime.strptime(t, "%Y-%m-%d %H:%M:%S") returns rather than raising
\* ValueError.  The directives %m %d %H %M %S match one or two digits, so
\* zero padding is not required; the blank of the format must be whitespace.
StrptimeOk(t) == t.kind = "stamp" /\ t.sep = ISO_FMT.sep /\ ValidFields(t.parts)

\* pandas.to_datetime(t) returns a Timestamp rather than raising: any
\* well-formed date and time, padded or not, blank- or T-separated.
ToDatetimeOk(t) == t.kind = "stamp" /\ ValidFields(t.parts)

\* dt.strftime("%Y-%m-%d %H:%M:%S"): zero-padded fields, one blank.
Strftime(p) == Stamp(p, TRUE, ISO_FMT.sep)

\* The date Seconds counts from.
Epoch == <<2024, 1, 1>>

EpochYear == Epoch[1]

DaysBeforeYear(y) ==
    IF y >= EpochYear
    THEN 365 * (y - EpochYear) + Cardinality({z \in EpochYear..(y - 1) : IsLeap(z)})
    ELSE -(365 * (EpochYear - y) + Cardinality({z \in y..(EpochYear - 1) : IsLeap(z)}))

RECURSIVE DaysBeforeMonth(_, _)
DaysBeforeMonth(y, m) == IF m = 1 THEN 0 ELSE DaysBeforeMonth(y, m - 1) + DaysInMonth(y, m - 1)

\* A Timestamp as whole seconds since EpochYear-01-01 00:00:00.
Seconds(p) ==
    ((DaysBeforeYear(p[1]) + DaysBeforeMonth(p[1], p[2]) + (p[3] - 1)) * 24 + p[4]) * 3600
        + p[5] * 60 + p[6]

----------------------------------------------------------------------------
(* The table.  initialize_db creates it with every column but closed_at   *)
(* NOT NULL and a CHECK on status; there is no CHECK on severity.          *)

Severities == {"Low", "Medium", "High", "Critical"}

Statuses == {"Open", "In Progress", "Closed"}

\* SQL NULL in a TEXT column other than the two timestamps (which use None).
NULL == "<NULL>"

Row(id, created_at, closed_at, severity, category, system, description, reporter, status) ==
    [id |-> id, created_at |-> created_at, closed_at |-> closed_at, severity |-> severity,
     category |-> category, system |-> system, description |-> description,
     reporter |-> reporter, status |-> status]

\* The outcome of one INSERT's constraint checks.
InsertCheck(r) ==
    IF \/ r.created_at = None
       \/ NULL \in {r.severity, r.category, r.system, r.description, r.reporter, r.status}
    THEN "IntegrityError: NOT NULL constraint failed"
    ELSE IF r.status \notin Statuses
    THEN "IntegrityError: CHECK constraint failed"
    ELSE "ok"

Ids(rows) == {rows[i].id : i \in 1..Len(rows)}

Init ==
    /\ incidents = <<>>
    /\ autoinc = 0
    /\ last = [op |-> "initialize_db", header |-> "", result |-> "ok"]
    /\ pc = "idle"
    /\ df = <<>>
    /\ metrics = [set |-> FALSE]
    /\ series = <<>>
    /\ charts = [set |-> FALSE]
    /\ pdf = [set |-> FALSE]
    /\ written = <<>>
    /\ failed_at = ""
    /\ ret = [set |-> FALSE]

\* The validation add_incident runs before it connects: the message of the
\* ValueError it raises, or "ok".
add_incident_check(created_at, severity, status, closed_at) ==
    IF ~StrptimeOk(created_at)
    THEN "ValueError: created_at must be in ISO format"
    ELSE IF Truthy(closed_at) /\ ~StrptimeOk(closed_at)
    THEN "ValueError: closed_at must be in ISO format"
    ELSE IF severity \notin Severities
    THEN "ValueError: severity must be one of Low, Medium, High, Critical"
    ELSE IF status \notin Statuses
    THEN "ValueError: status must be one of Open, In Progress, Closed"
    ELSE "ok"

add_incident(created_at, severity, category, system, description, reporter, status, closed_at) ==
    /\ pc = "idle"
    /\ LET v == add_incident_check(created_at, severity, status, closed_at)
           r == Row(autoinc + 1, created_at, closed_at, severity, category, system,
                    description, reporter, status)
           res == IF v # "ok" THEN v ELSE InsertCheck(r)
       IN  /\ res = "ok" => Len(incidents) < MaxRows
           /\ incidents' = IF res = "ok" THEN Append(incidents, r) ELSE incidents
           /\ autoinc' = IF res = "ok" THEN autoinc + 1 ELSE autoinc
           /\ last' = [op |-> "add_incident", header |-> "", result |-> res]
    /\ UNCHANGED run_vars

\* The validation update_status runs before it connects.
update_status_check(status, closed_at) ==
    IF status \notin Statuses
    THEN "ValueError: status must be one of Open, In Progress, Closed"
    ELSE "ok"

\* The UPDATE without its WHERE clause.
UpdateRows_no_where(rows, incident_id, status, closed_at) ==
    [i \in 1..Len(rows) |-> [rows[i] EXCEPT !.status = status, !.closed_at = closed_at]]

\* UPDATE incidents SET status=?, closed_at=? WHERE id=?
UpdateRows(rows, incident_id, status, closed_at) ==
    [i \in 1..Len(rows) |->
        IF rows[i].id = incident_id
        THEN [rows[i] EXCEPT !.status = status, !.closed_at = closed_at]
        ELSE rows[i]]

\* The constraints the UPDATE statement itself meets: the CHECK on status,
\* evaluated for each row the WHERE clause selects.
UpdateCheck(rows, incident_id, status) ==
    IF incident_id \in Ids(rows) /\ status \notin Statuses
    THEN "IntegrityError: CHECK constraint failed"
    ELSE "ok"

update_status(incident_id, status, closed_at) ==
    /\ pc = "idle"
    /\ LET v == update_status_check(status, closed_at)
           res == IF v # "ok" THEN v ELSE UpdateCheck(incidents, incident_id, status)
       IN  /\ incidents' = IF res = "ok"
                           THEN UpdateRows(incidents, incident_id, status, closed_at)
                           ELSE incidents
           /\ last' = [op |-> "update_status", header |-> "", result |-> res]
    /\ UNCHANGED <<autoinc, run_vars>>

----------------------------------------------------------------------------
(* bulk_import_csv.  A CSV file is its header (the set of column names)   *)
(* and its data rows; a row gives a cell for each of the eight columns,    *)
(* and the cells of a column the header lacks are not in the file.         *)

expected == {"created_at", "closed_at", "severity", "category", "system", "description", "reporter", "status"}

\* pandas.read_csv turns an empty cell into NaN.
ReadStr(cell) == IF cell = "" THEN NULL ELSE cell

ReadText(cell) == IF cell = Raw("") THEN None ELSE cell

\* str(ts).strip() == "" for the texts of the model.
StripsToEmpty(t) == t.kind = "raw" /\ t.text \in {"", " "}

\* norm(ts) of bulk_import_csv, for a cell to_datetime accepts or a blank one.
norm(ts) ==
    IF ts = None \/ StripsToEmpty(ts) THEN None ELSE Strftime(ts.parts)

\* norm raises on this cell: pd.to_datetime cannot parse it.
NormRaises(ts) == ~(ts = None \/ StripsToEmpty(ts)) /\ ~ToDatetimeOk(ts)

\* The column check with "reporter" left out of the expected set.
missing_columns_without_reporter(csv) == (expected \ {"reporter"}) \ csv.columns

\* missing = expected - set(df.columns)
missing_columns(csv) == expected \ csv.columns

\* The rows the INSERT loop binds, ids handed out from autoinc on.
BulkRows(csv, first) ==
    [i \in 1..Len(csv.rows) |->
        Row(first + i,
            norm(ReadText(csv.rows[i].created_at)), norm(ReadText(csv.rows[i].closed_at)),
            ReadStr(csv.rows[i].severity), ReadStr(csv.rows[i].category),
            ReadStr(csv.rows[i].system), ReadStr(csv.rows[i].description),
            ReadStr(csv.rows[i].reporter), ReadStr(csv.rows[i].status))]

\* What the call ends with: the exception that leaves it, or "ok" when
\* conn.commit() is reached.  An exception inside the loop leaves before
\* commit, and the rows executed so far are rolled back with the connection.
bulk_import_result(csv, first) ==
    IF missing_columns(csv) # {}
    THEN "ValueError: Missing columns in CSV"
    ELSE IF {"created_at", "closed_at"} \ csv.columns # {}
    THEN "KeyError"
    ELSE IF \E i \in 1..Len(csv.rows) :
                \/ NormRaises(ReadText(csv.rows[i].created_at))
                \/ NormRaises(ReadText(csv.rows[i].closed_at))
    THEN "ValueError: Unknown datetime string format"
    ELSE IF Len(csv.rows) > 0 /\ expected \ csv.columns # {}
    THEN "KeyError"
    ELSE LET rows == BulkRows(csv, first)
             bad == {i \in 1..Len(rows) : InsertCheck(rows[i]) # "ok"}
         IN  IF bad = {} THEN "ok"
             ELSE InsertCheck(rows[CHOOSE i \in bad : \A j \in bad : i <= j])

bulk_import_csv(csv) ==
    /\ pc = "idle"
    /\ LET res == bulk_import_result(csv, autoinc)
       IN  /\ res = "ok" => Len(incidents) + Len(csv.rows) <= MaxRows
           /\ incidents' = IF res = "ok" THEN incidents \o BulkRows(csv, autoinc) ELSE incidents
           /\ autoinc' = IF res = "ok" THEN autoinc + Len(csv.rows) ELSE autoinc
           /\ last' = [op |-> "bulk_import_csv", header |-> IF expected \subseteq csv.columns THEN "complete" ELSE "incomplete", result |-> res]
    /\ UNCHANGED run_vars

----------------------------------------------------------------------------
(* The report run.                                                         *)

NaT == [nat |-> TRUE, s |-> 0]

\* read_sql_query(..., parse_dates=[...]) converts a date column with
\* to_datetime(errors="coerce"): NULL and text it cannot parse become NaT.
ParseDate(t) == IF ToDatetimeOk(t) THEN [nat |-> FALSE, s |-> Seconds(t.parts)] ELSE NaT

get_incidents_df(rows) ==
    [i \in 1..Len(rows) |->
        [rows[i] EXCEPT !.created_at = ParseDate(rows[i].created_at),
                        !.closed_at = ParseDate(rows[i].closed_at)]]

Column(frame, c) == [i \in 1..Len(frame) |-> frame[i][c]]

RECURSIVE FirstSeen(_)
\* The distinct values of a column, in the order they first appear.
FirstSeen(col) ==
    IF col = <<>> THEN <<>>
    ELSE LET init == FirstSeen(SubSeq(col, 1, Len(col) - 1))
             x == col[Len(col)]
         IN  IF \E i \in 1..Len(init) : init[i] = x THEN init ELSE Append(init, x)

Count(col, x) == Cardinality({i \in 1..Len(col) : col[i] = x})

RECURSIVE SortDesc(_)
\* Stable sort of <<key, count>> pairs, largest count first.
SortDesc(pairs) ==
    IF pairs = <<>> THEN <<>>
    ELSE LET init == SortDesc(SubSeq(pairs, 1, Len(pairs) - 1))
             x == pairs[Len(pairs)]
             k == Cardinality({i \in 1..Len(init) : init[i][2] >= x[2]})
         IN  SubSeq(init, 1, k) \o <<x>> \o SubSeq(init, k + 1, Len(init))

\* Series.value_counts(): one entry per value present, by falling count.
value_counts(col) ==
    LET keys == FirstSeen(col)
    IN  SortDesc([i \in 1..Len(keys) |-> <<keys[i], Count(col, keys[i])>>])

Lookup(pairs, key) ==
    IF \E i \in 1..Len(pairs) : pairs[i][1] = key
    THEN (pairs[CHOOSE i \in 1..Len(pairs) : pairs[i][1] = key])[2]
    ELSE 0

severity_order == <<"Low", "Medium", "High", "Critical">>

\* df["severity"].value_counts().reindex(severity_order).fillna(0)
sev_counts(frame) ==
    LET vc == value_counts(Column(frame, "severity"))
    IN  [i \in 1..Len(severity_order) |-> <<severity_order[i], Lookup(vc, severity_order[i])>>]

\* metrics["by_severity"] = df["severity"].value_counts().to_dict()
by_severity(frame) == value_counts(Column(frame, "severity"))

by_category(frame) == value_counts(Column(frame, "category"))

\* df[df["closed_at"].notna()]
Closed(frame) == SelectSeq(frame, LAMBDA r : ~r.closed_at.nat)

RECURSIVE SumSeq(_)
SumSeq(q) == IF q = <<>> THEN 0 ELSE q[1] + SumSeq(Tail(q))

RECURSIVE Gcd(_, _)
Gcd(a, b) == IF b = 0 THEN a ELSE Gcd(b, a % b)

Abs(x) == IF x < 0 THEN -x ELSE x

\* The fraction num/den (den > 0) in lowest terms.
Ratio(num, den) ==
    LET g == Gcd(Abs(num), den)
    IN  [none |-> FALSE, num |-> num \div g, den |-> den \div g]

NoValue == [none |-> TRUE, num |-> 0, den |-> 1]

\* Rows whose two timestamps are both set: a NaT created_at makes the
\* difference NaN, which mean() skips.
Resolved(frame) == SelectSeq(Closed(frame), LAMBDA r : ~r.created_at.nat)

\* (closed_at - created_at).dt.total_seconds() / 3600.0, then .mean()
mean_resolution_hours(frame) ==
    LET rs == Resolved(frame)
        secs == [i \in 1..Len(rs) |-> rs[i].closed_at.s - rs[i].created_at.s]
    IN  IF rs = <<>> THEN NoValue ELSE Ratio(SumSeq(secs), 3600 * Len(rs))

\* The metrics dict of generate_reports.
compute_metrics(frame) ==
    IF frame # <<>>
    THEN [set |-> TRUE, total_incidents |-> Len(frame),
          by_category |-> by_category(frame), by_severity |-> by_severity(frame),
          avg_resolution_hours |->
              IF Closed(frame) # <<>> THEN mean_resolution_hours(frame) ELSE NoValue]
    ELSE [set |-> TRUE, total_incidents |-> Len(frame),
          by_category |-> <<>>, by_severity |-> <<>>, avg_resolution_hours |-> NoValue]

NoFile == ""

\* generate_charts with the monthly chart drawn even for an empty frame.
chart_files_unguarded(frame) ==
    << <<"monthly", "incidents_by_month.png">>,
       <<"category", IF frame # <<>> THEN "incidents_by_category.png" ELSE NoFile>>,
       <<"severity", IF frame # <<>> THEN "incidents_by_severity.png" ELSE NoFile>>,
       <<"resolution", IF frame # <<>> /\ Closed(frame) # <<>>
                       THEN "mean_resolution_time_by_category.png" ELSE NoFile>> >>

\* The four charts of generate_charts, in the order it draws them, each
\* with the file it saves or NoFile when it skips the chart.
chart_files(frame) ==
    << <<"monthly", IF frame # <<>> THEN "incidents_by_month.png" ELSE NoFile>>,
       <<"category", IF frame # <<>> THEN "incidents_by_category.png" ELSE NoFile>>,
       <<"severity", IF frame # <<>> THEN "incidents_by_severity.png" ELSE NoFile>>,
       <<"resolution", IF frame # <<>> /\ Closed(frame) # <<>>
                       THEN "mean_resolution_time_by_category.png" ELSE NoFile>> >>

\* The series of the severity chart; nothing is plotted for an empty frame.
severity_series(frame) == IF frame # <<>> THEN sev_counts(frame) ELSE <<>>

Saved(cf) == SelectSeq([i \in 1..Len(cf) |-> cf[i][2]], LAMBDA f : f # NoFile)

\* f"{x:.2f}": x in hundredths, rounded to nearest, ties to even.
Round2(r) ==
    LET n == 200 * r.num + r.den
        d == 2 * r.den
        q == n \div d
    IN  IF n % d = 0 /\ q % 2 = 1 THEN q - 1 ELSE q

\* avg_resolution of generate_pdf_report: "<x> hrs", or "-".
avg_resolution(frame) ==
    IF Closed(frame) # <<>>
    THEN (IF mean_resolution_hours(frame).none
          THEN [text |-> "nan hrs", hundredths |-> 0]
          ELSE [text |-> "hrs", hundredths |-> Round2(mean_resolution_hours(frame))])
    ELSE [text |-> "-", hundredths |-> 0]

DaySeconds == 24 * 3600

\* (df["created_at"] >= now - 30 days).sum()
last_30(frame, now) ==
    IF frame # <<>>
    THEN Cardinality({i \in 1..Len(frame) :
            ~frame[i].created_at.nat /\ frame[i].created_at.s >= now - 30 * DaySeconds})
    ELSE 0

\* What generate_pdf_report puts in the document: the three summary rows
\* and one section for each chart whose path is set and exists.
generate_pdf_report(frame, ch, files, now) ==
    [set |-> TRUE,
     total_incidents |-> Len(frame),
     last_30 |-> last_30(frame, now),
     avg_resolution |-> avg_resolution(frame),
     sections |-> SelectSeq([i \in 1..Len(ch) |-> ch[i]],
                            LAMBDA c : c[2] # NoFile /\ c[2] \in files)]

Range(q) == {q[i] : i \in 1..Len(q)}

----------------------------------------------------------------------------
(* generate_reports, one action per stage.  A stage that does I/O either   *)
(* completes or raises (ok = FALSE); an exception leaves generate_reports  *)
(* at once, so the stages after it do not run.  The program is             *)
(* single-threaded and the store is used by one process at a time, so no   *)
(* call on the store happens while a run is in progress.                   *)

stages == <<"mkdir", "load", "export", "aggregate", "metrics", "charts", "pdf", "done">>

\* generate_reports with the charts rendered before the metrics file is written.
next_stage_charts_first(stage) ==
    LET order == <<"mkdir", "load", "export", "aggregate", "charts", "metrics", "pdf", "done">>
    IN  order[(CHOOSE i \in 1..Len(order) : order[i] = stage) + 1]

\* The stage generate_reports runs once `stage` has completed.
next_stage(stage) ==
    stages[(CHOOSE i \in 1..Len(stages) : stages[i] = stage) + 1]

Clear ==
    /\ df' = <<>>
    /\ metrics' = [set |-> FALSE]
    /\ series' = <<>>
    /\ charts' = [set |-> FALSE]
    /\ pdf' = [set |-> FALSE]
    /\ written' = <<>>
    /\ ret' = [set |-> FALSE]

\* An exception raised in `stage` propagates out of generate_reports.
Raise(stage) ==
    /\ pc' = "failed"
    /\ failed_at' = stage
    /\ last' = [op |-> "generate_reports", header |-> "", result |-> "OSError"]

\* The call: out_dir.mkdir(parents=True, exist_ok=True)
generate_reports(ok) ==
    /\ pc = "idle"
    /\ Clear
    /\ IF ok
       THEN /\ pc' = next_stage("mkdir")
            /\ last' = [op |-> "generate_reports", header |-> "", result |-> "running"]
            /\ failed_at' = ""
       ELSE Raise("mkdir")
    /\ UNCHANGED <<incidents, autoinc>>

\* df = get_incidents_df(db_path)
LoadRecords(ok) ==
    /\ pc = "load"
    /\ IF ok
       THEN /\ df' = get_incidents_df(incidents)
            /\ pc' = next_stage("load")
            /\ UNCHANGED <<last, failed_at>>
       ELSE Raise("load") /\ UNCHANGED df
    /\ UNCHANGED <<incidents, autoinc, metrics, series, charts, pdf, written, ret>>

\* export_csv(df, out_dir / "incidents_export.csv")
ExportCsv(ok) ==
    /\ pc = "export"
    /\ IF ok
       THEN /\ written' = Append(written, "incidents_export.csv")
            /\ pc' = next_stage("export")
            /\ UNCHANGED <<last, failed_at>>
       ELSE Raise("export") /\ UNCHANGED written
    /\ UNCHANGED <<incidents, autoinc, df, metrics, series, charts, pdf, ret>>

\* metrics = {...}
ComputeAggregates ==
    /\ pc = "aggregate"
    /\ metrics' = compute_metrics(df)
    /\ pc' = next_stage("aggregate")
    /\ UNCHANGED <<incidents, autoinc, last, df, series, charts, pdf, written, failed_at, ret>>

\* with open(out_dir / "metrics_summary.csv", "w") as f: ...
WriteMetrics(ok) ==
    /\ pc = "metrics"
    /\ IF ok
       THEN /\ written' = Append(written, "metrics_summary.csv")
            /\ pc' = next_stage("metrics")
            /\ UNCHANGED <<last, failed_at>>
       ELSE Raise("metrics") /\ UNCHANGED written
    /\ UNCHANGED <<incidents, autoinc, df, metrics, series, charts, pdf, ret>>

\* charts = generate_charts(df, out_dir): the charts are saved one after the
\* other; savefig may raise at the (n+1)-th one, after n files were saved.
generate_charts(n) ==
    /\ pc = "charts"
    /\ LET cf == chart_files(df)
           saved == Saved(cf)
       IN  IF n >= Len(saved)
           THEN /\ written' = written \o saved
                /\ charts' = [set |-> TRUE, files |-> cf]
                /\ series' = severity_series(df)
                /\ pc' = next_stage("charts")
                /\ UNCHANGED <<last, failed_at>>
           ELSE /\ written' = written \o SubSeq(saved, 1, n)
                /\ Raise("charts")
                /\ UNCHANGED <<charts, series>>
    /\ UNCHANGED <<incidents, autoinc, df, metrics, pdf, ret>>

\* generate_pdf_report(df, charts, out_dir / "incident_report.pdf"), then
\* the return statement.
ComposePdf(ok, now) ==
    /\ pc = "pdf"
    /\ IF ok
       THEN /\ pdf' = generate_pdf_report(df, charts.files, Range(written), now)
            /\ written' = Append(written, "incident_report.pdf")
            /\ ret' = [set |-> TRUE,
                       export_csv |-> "incidents_export.csv",
                       metrics_csv |-> "metrics_summary.csv",
                       pdf_report |-> "incident_report.pdf",
                       charts |-> charts.files]
            /\ pc' = next_stage("pdf")
            /\ last' = [op |-> "generate_reports", header |-> "", result |-> "ok"]
            /\ UNCHANGED failed_at
       ELSE Raise("pdf") /\ UNCHANGED <<pdf, written, ret>>
    /\ UNCHANGED <<incidents, autoinc, df, metrics, series, charts>>

\* generate_reports has returned or raised: its DataFrame, dicts and the
\* record of what it wrote are gone with the call.
Return ==
    /\ pc \in {"done", "failed"}
    /\ pc' = "idle"
    /\ Clear
    /\ failed_at' = ""
    /\ UNCHANGED store_vars

----------------------------------------------------------------------------
(* The inputs the calls are tried with.                                    *)

\* "2024-01-01 00:00:00"
T0 == Stamp(<<2024, 1, 1, 0, 0, 0>>, TRUE, " ")

\* "2024-01-01 02:00:00"
T2 == Stamp(<<2024, 1, 1, 2, 0, 0>>, TRUE, " ")

\* "2024-1-1 5:20:0"
Unpadded == Stamp(<<2024, 1, 1, 5, 20, 0>>, FALSE, " ")

\* "2024-01-01T02:00:00"
IsoT == Stamp(<<2024, 1, 1, 2, 0, 0>>, TRUE, "T")

Soon == Raw("soon")

\* add_incident's (created_at, severity, status, closed_at): a valid call,
\* and calls that differ from it in one argument.
AddInputs ==
    { <<T0, "Low", "Open", None>>,
      <<Soon, "Low", "Open", None>>,
      <<T0, "Urgent", "Open", None>>,
      <<T0, "Low", "Done", None>>,
      <<T0, "Low", "Open", Raw("")>>,
      <<T0, "Low", "Open", T2>>,
      <<T0, "Low", "Open", Unpadded>>,
      <<T0, "Low", "Open", Soon>> }

\* update_status's (status, closed_at).
UpdateInputs ==
    { <<"In Progress", None>>, <<"Closed", None>>, <<"Closed", T2>>, <<"Closed", Soon>>,
      <<"Done", T2>> }

IdInputs == 1..(MaxRows + 1)

NowInputs == {Seconds(<<2024, 1, 15, 0, 0, 0>>), Seconds(<<2024, 3, 1, 0, 0, 0>>)}

CsvCells(created_at, closed_at, severity, status) ==
    [created_at |-> created_at, closed_at |-> closed_at, severity |-> severity,
     category |-> "Malware", system |-> "mail-gw", description |-> "d",
     reporter |-> "bob", status |-> status]

\* created_at, closed_at "2024-01-01T02:00:00", High, Closed.
RowClosed == CsvCells(T0, IsoT, "High", "Closed")

\* A severity outside the enumeration and a closed_at cell of one blank.
RowUrgent == CsvCells(T0, Raw(" "), "Urgent", "Open")

\* A status the CHECK constraint rejects.
RowDone == CsvCells(T0, Raw(""), "Low", "Done")

\* A created_at that is no date.
RowSoon == CsvCells(Soon, Raw(""), "Low", "Open")

\* An empty created_at cell.
RowBlank == CsvCells(Raw(""), Raw(""), "Low", "Open")

\* Files with every column, and files that lack one column.
CsvInputs ==
    [columns : {expected},
     rows : { <<>>, <<RowClosed>>, <<RowUrgent>>, <<RowClosed, RowUrgent>>,
              <<RowUrgent, RowClosed>>, <<RowDone>>, <<RowClosed, RowDone>>,
              <<RowSoon>>, <<RowClosed, RowSoon>>, <<RowClosed, RowBlank>> }]
        \cup [columns : {expected \ {c} : c \in expected}, rows : {<<RowClosed>>}]

Next ==
    \/ \E a \in AddInputs :
            add_incident(a[1], a[2], "Phishing", "mail-gw", "d", "alice", a[3], a[4])
    \/ \E id \in IdInputs, u \in UpdateInputs : update_status(id, u[1], u[2])
    \/ \E csv \in CsvInputs : bulk_import_csv(csv)
    \/ \E ok \in BOOLEAN : generate_reports(ok)
    \/ \E ok \in BOOLEAN : LoadRecords(ok)
    \/ \E ok \in BOOLEAN : ExportCsv(ok)
    \/ ComputeAggregates
    \/ \E ok \in BOOLEAN : WriteMetrics(ok)
    \/ \E n \in 0..4 : generate_charts(n)
    \/ \E ok \in BOOLEAN, now \in NowInputs : ComposePdf(ok, now)
    \/ Return

Spec == Init /\ [][Next]_vars

----------------------------------------------------------------------------
(* Vocabulary of the properties.                                           *)

\* A text in the form YYYY-MM-DD HH:MM:SS: four-digit year, two-digit
\* fields, one blank between date and time, and a date and time that exist.
MatchesIsoFormat(t) ==
    t.kind = "stamp" /\ t.pad /\ t.sep = " " /\ ValidFields(t.parts)

ValidationErrors ==
    { "ValueError: created_at must be in ISO format",
      "ValueError: closed_at must be in ISO format",
      "ValueError: severity must be one of Low, Medium, High, Critical",
      "ValueError: status must be one of Open, In Progress, Closed",
      "ValueError: Missing columns in CSV" }

IsPrefix(p, q) == Len(p) <= Len(q) /\ SubSeq(q, 1, Len(p)) = p

\* The fields of a row that no operation may change.
Fixed(r) == <<r.id, r.created_at, r.severity, r.category, r.system, r.description, r.reporter>>

----------------------------------------------------------------------------
(* C1.  Every persisted incident has its severity among Low, Medium, High, *)
(* Critical and its status among Open, In Progress, Closed.                *)
C1_EnumsRestricted ==
    \A i \in 1..Len(incidents) :
        incidents[i].severity \in Severities /\ incidents[i].status \in Statuses

(* C1, the half the table's CHECK constraint enforces: every persisted     *)
(* status is one of the three.                                             *)
C1_StatusRestricted ==
    \A i \in 1..Len(incidents) : incidents[i].status \in Statuses

(* C2.  add_incident persists exactly one new row if and only if severity  *)
(* and status are in their enumerations and created_at, and closed_at when *)
(* given, is in the form YYYY-MM-DD HH:MM:SS; otherwise it fails with a    *)
(* validation error and the table is unchanged.                            *)
C2_AddIffValid ==
    [][\A a \in AddInputs :
        add_incident(a[1], a[2], "Phishing", "mail-gw", "d", "alice", a[3], a[4]) =>
            IF /\ a[2] \in Severities
               /\ a[3] \in Statuses
               /\ MatchesIsoFormat(a[1])
               /\ (Truthy(a[4]) => MatchesIsoFormat(a[4]))
            THEN /\ last'.result = "ok"
                 /\ Len(incidents') = Len(incidents) + 1
                 /\ IsPrefix(incidents, incidents')
            ELSE /\ last'.result \in ValidationErrors
                 /\ incidents' = incidents]_vars

(* C3.  update_status fails with a validation error and leaves every row   *)
(* unchanged whenever status is not one of the three or the closed_at it   *)
(* is given is not in the form YYYY-MM-DD HH:MM:SS.                        *)
C3_UpdateRejectsInvalid ==
    [][\A id \in IdInputs, u \in UpdateInputs :
        (/\ update_status(id, u[1], u[2])
         /\ (u[1] \notin Statuses \/ (u[2] # None /\ ~MatchesIsoFormat(u[2])))) =>
            /\ last'.result \in ValidationErrors
            /\ incidents' = incidents]_vars

(* C4.  bulk_import_csv on a file that lacks one of the eight required     *)
(* columns fails with the missing-columns validation error, and the table  *)
(* (and the id counter) after the call is the table before it.             *)
C4_MissingColumnRejected ==
    [][(last'.op = "bulk_import_csv" /\ last'.header = "incomplete" /\ last' # last) =>
            /\ last'.result = "ValueError: Missing columns in CSV"
            /\ incidents' = incidents
            /\ autoinc' = autoinc]_vars

C4_Witness ==
    /\ last.op = "bulk_import_csv"
    /\ last.header = "incomplete"
    /\ last.result = "ValueError: Missing columns in CSV"
    /\ incidents # <<>>

\* The four severities in their fixed order, each with the number of rows
\* that have it.
FourSeverityCounts(rows) ==
    LET order == <<"Low", "Medium", "High", "Critical">>
    IN  [k \in 1..4 |-> <<order[k], Cardinality({i \in 1..Len(rows) : rows[i].severity = order[k]})>>]

(* C5.  For a non-empty table, the severity series the run charts and the  *)
(* by_severity breakdown of the metrics file each have exactly the keys    *)
(* Low, Medium, High, Critical in that order with the count of each, 0 for *)
(* a severity no row has.                                                  *)
C5_SeverityCounts ==
    (pc # "idle" /\ incidents # <<>>) =>
        /\ charts.set => series = FourSeverityCounts(incidents)
        /\ metrics.set => metrics.by_severity = FourSeverityCounts(incidents)

(* C5, the half that holds: the charted series has the four keys in order. *)
C5_ChartedSeries ==
    (pc # "idle" /\ incidents # <<>> /\ charts.set) => series = FourSeverityCounts(incidents)

\* The rows whose closed_at is set.
WithClosedAt(rows) == SelectSeq(rows, LAMBDA r : Truthy(r.closed_at))

\* Mean of closed_at - created_at in hours over the rows given, all of
\* which hold timestamps.
MeanHours(rows) ==
    Ratio(SumSeq([i \in 1..Len(rows) |->
                    Seconds(rows[i].closed_at.parts) - Seconds(rows[i].created_at.parts)]),
          3600 * Len(rows))

(* C6.  The average resolution a run reports, in the metrics file and in   *)
(* the summary table, is the mean of closed_at - created_at in hours over  *)
(* exactly the incidents whose closed_at is set, and it is null ("-" in    *)
(* the document) exactly when no incident has closed_at set.               *)
C6_AvgResolution ==
    LET closed == WithClosedAt(incidents)
        counted == \A i \in 1..Len(closed) : closed[i].closed_at.kind = "stamp"
    IN  pc # "idle" =>
            /\ metrics.set =>
                 IF closed = <<>> THEN metrics.avg_resolution_hours = NoValue
                 ELSE counted /\ metrics.avg_resolution_hours = MeanHours(closed)
            /\ pdf.set =>
                 IF closed = <<>> THEN pdf.avg_resolution.text = "-"
                 ELSE /\ counted
                      /\ pdf.avg_resolution = [text |-> "hrs", hundredths |-> Round2(MeanHours(closed))]

(* C6 on tables in which every closed_at that is set is a timestamp.       *)
C6_AvgResolutionOfTimestamps ==
    (\A i \in 1..Len(incidents) :
        Truthy(incidents[i].closed_at) => incidents[i].closed_at.kind = "stamp")
    => C6_AvgResolution

AllAbsent(cf) == \A i \in 1..Len(cf) : cf[i][2] = NoFile

(* C7.  A run over an empty table is not stopped by its data: only a       *)
(* failing write or read can stop it, and no chart is written that could   *)
(* fail.  It reports total 0, empty category and severity breakdowns and a *)
(* null average, marks all four charts absent, and at its end has written  *)
(* the export CSV, the metrics CSV and the document.                       *)
C7_EmptyRun ==
    (pc # "idle" /\ incidents = <<>>) =>
        /\ pc = "failed" => failed_at \in {"mkdir", "load", "export", "metrics", "pdf"}
        /\ metrics.set =>
             /\ metrics.total_incidents = 0
             /\ metrics.by_category = <<>>
             /\ metrics.by_severity = <<>>
             /\ metrics.avg_resolution_hours = NoValue
        /\ charts.set =>
             /\ [i \in 1..4 |-> charts.files[i][1]] = <<"monthly", "category", "severity", "resolution">>
             /\ AllAbsent(charts.files)
        /\ pc \in {"pdf", "done"} => charts.set
        /\ pc = "done" =>
             /\ written = <<"incidents_export.csv", "metrics_summary.csv", "incident_report.pdf">>
             /\ metrics.set /\ pdf.set /\ ret.set
             /\ pdf.total_incidents = 0 /\ pdf.last_30 = 0
             /\ pdf.avg_resolution.text = "-" /\ pdf.sections = <<>>
             /\ AllAbsent(ret.charts)

C7_Witness == pc = "done" /\ incidents = <<>> /\ last.result = "ok"

ChartNames ==
    { "incidents_by_month.png", "incidents_by_category.png", "incidents_by_severity.png",
      "mean_resolution_time_by_category.png" }

\* w is the export CSV, then the metrics CSV, then chart images.
Outputs(w) ==
    /\ Len(w) >= 1 => w[1] = "incidents_export.csv"
    /\ Len(w) >= 2 => w[2] = "metrics_summary.csv"
    /\ \A i \in 3..Len(w) : w[i] \in ChartNames
    /\ \A i, j \in 3..Len(w) : i # j => w[i] # w[j]

\* What each position of a run has written and computed.
C8_StageState ==
    /\ pc \in {"load", "export"} => written = <<>> /\ ~metrics.set /\ ~charts.set /\ ~pdf.set
    /\ pc = "aggregate" => Len(written) = 1 /\ Outputs(written) /\ ~metrics.set /\ ~charts.set /\ ~pdf.set
    /\ pc = "metrics" => Len(written) = 1 /\ Outputs(written) /\ metrics.set /\ ~charts.set /\ ~pdf.set
    /\ pc = "charts" => Len(written) = 2 /\ Outputs(written) /\ metrics.set /\ ~charts.set /\ ~pdf.set
    /\ pc = "pdf" => Len(written) >= 2 /\ Outputs(written) /\ metrics.set /\ charts.set /\ ~pdf.set
    /\ pc = "done" =>
         /\ Len(written) >= 3
         /\ written[Len(written)] = "incident_report.pdf"
         /\ Outputs(SubSeq(written, 1, Len(written) - 1))
         /\ metrics.set /\ charts.set /\ pdf.set /\ ret.set
    /\ pc = "failed" =>
         /\ ~pdf.set /\ ~ret.set
         /\ Outputs(written)
         /\ failed_at \in {"mkdir", "load", "export"} => written = <<>> /\ ~metrics.set /\ ~charts.set
         /\ failed_at = "metrics" => Len(written) = 1 /\ metrics.set /\ ~charts.set
         /\ failed_at = "charts" => Len(written) >= 2 /\ metrics.set /\ ~charts.set
         /\ failed_at = "pdf" => Len(written) >= 2 /\ metrics.set /\ charts.set
         /\ failed_at # "aggregate"

\* How a run moves: one stage at a time in the fixed order, or out by a
\* failure; after a failure nothing runs but the return to the caller; and
\* a step of a run removes no output file.
C8_StageStep ==
    /\ pc = "failed" => pc' = "idle"
    /\ (pc' # pc /\ pc' \notin {"failed", "idle"}) =>
            <<pc, pc'>> \in { <<"idle", "load">>, <<"load", "export">>, <<"export", "aggregate">>,
                             <<"aggregate", "metrics">>, <<"metrics", "charts">>,
                             <<"charts", "pdf">>, <<"pdf", "done">> }
    /\ (pc # "idle" /\ pc' # "idle") => IsPrefix(written, written')

(* C8.  The stages of a run happen in the order load, export CSV,          *)
(* aggregates, metrics CSV, charts, document, each after the one before    *)
(* has completed; once a stage fails no later stage runs and no later      *)
(* output is written, and the outputs written before it stay.              *)
C8_StagesInOrder == []C8_StageState /\ [][C8_StageStep]_vars

C8_Witness ==
    /\ pc = "failed"
    /\ failed_at = "charts"
    /\ Len(written) = 3
    /\ metrics.set

\* What any step may do to the table: rows are only added at the end, and
\* a row that exists keeps its fixed fields.
C9_Frame ==
    /\ Len(incidents') >= Len(incidents)
    /\ \A i \in 1..Len(incidents) : Fixed(incidents'[i]) = Fixed(incidents[i])
    /\ last'.op = "update_status" =>
         /\ Len(incidents') = Len(incidents)
         /\ \E id \in IdInputs : \A i \in 1..Len(incidents) :
                incidents[i].id # id => incidents'[i] = incidents[i]
    /\ last'.op \in {"add_incident", "bulk_import_csv"} => IsPrefix(incidents, incidents')

C9_UniqueIds ==
    \A i, j \in 1..Len(incidents) : i # j => incidents[i].id # incidents[j].id

(* C9.  Identifiers stay unique, no row is ever removed, and a row's id,   *)
(* created_at, severity, category, system, description and reporter never  *)
(* change: update_status changes nothing but status and closed_at of the   *)
(* row with the given id, and inserts change no existing row.              *)
C9_RowsImmutable == []C9_UniqueIds /\ [][C9_Frame]_vars

C9_Witness ==
    /\ Len(incidents) = 2
    /\ last.op = "update_status"
    /\ last.result = "ok"
    /\ incidents[1].status = "Open"
    /\ incidents[2].status = "Closed"
    /\ incidents[2].closed_at = T2

(* C10.  No persisted incident has closed_at set while its status is Open  *)
(* or In Progress.                                                         *)
C10_ClosedAtOnlyWhenClosed ==
    \A i \in 1..Len(incidents) :
        Truthy(incidents[i].closed_at) => incidents[i].status = "Closed"

============================================================================
